---- MODULE Spec2Model ----
(***************************************************************************)
(* A model of csv-diff-tool: the CSV parser (CSVParser / NullCSVParser),   *)
(* its de-duplication routine (_unique_vals), the comparer (CSVComparer)   *)
(* and the comparison result (CSVCompareOutput).                           *)
(*                                                                         *)
(* Texts.  A Python str is a sequence of one-character tokens, so that     *)
(* f"{val}.{n}" and str.strip() are computed character by character:       *)
(* "a.1" is <<"a", ".", "1">> whether it was typed or generated.  Values   *)
(* that are not str are sequences whose first token is a tag of more than  *)
(* one character: None is <<"None">>, the list DictReader stores under its *)
(* restkey is <<"list", ...>>.                                             *)
(***************************************************************************)
EXTENDS Integers, Sequences, FiniteSets, TLC

VARIABLES first_file, second_file, output, call, nops, uv, disk, key_set

vars == <<first_file, second_file, output, call, nops, uv, disk, key_set>>

----------------------------------------------------------------------------
(* Bounds of the model *)

\* longest list handed to _unique_vals in SpecUnique
MaxLen == 3
\* most data lines in a source text
MaxRows == 2
\* most mutating calls made on a comparer
MaxOps == 1
\* most calls made on a parser in SpecParser
MaxCalls == 3

----------------------------------------------------------------------------
(* Python values *)

NoneVal == <<"None">>

IsStr(v) == v = <<>> \/ v[1] \notin {"None", "list", "sep", "ValueError"}

\* str(v), as the f-string of _unique_vals formats it
Str(v) == IF v = NoneVal THEN <<"N", "o", "n", "e">> ELSE v

Digit(d) ==
  CASE d = 0 -> "0" [] d = 1 -> "1" [] d = 2 -> "2" [] d = 3 -> "3"
    [] d = 4 -> "4" [] d = 5 -> "5" [] d = 6 -> "6" [] d = 7 -> "7"
    [] d = 8 -> "8" [] d = 9 -> "9"

RECURSIVE DecStr(_)
DecStr(n) == IF n < 10 THEN <<Digit(n)>> ELSE DecStr(n \div 10) \o <<Digit(n % 10)>>

\* f"{val}.{n}"
Suffixed(val, n) == Str(val) \o <<".">> \o DecStr(n)

\* the texts the inputs are made of
TxtA == <<"a">>
TxtA1 == <<"a", ".", "1">>
TxtA2 == <<"a", ".", "2">>
TxtB == <<"b">>
TxtC == <<"c">>
TxtEmpty == <<>>
TxtNone1 == <<"N", "o", "n", "e", ".", "1">>
TxtX == <<"x">>
TxtX1 == <<"x", ".", "1">>
TxtXsp == <<" ", "x">>
TxtY == <<"y">>
TxtZ == <<"z">>
Txt1 == <<"1">>
Txt2 == <<"2">>

SeqToSet(s) == {s[i] : i \in DOMAIN s}

SeqsUpTo(S, n) == UNION {[1..m -> S] : m \in 0..n}

NoDuplicates(s) == \A i, j \in DOMAIN s : i # j => s[i] # s[j]

----------------------------------------------------------------------------
(* CSVParser._unique_vals *)

\* suffix_counts is a defaultdict(int)
CountOf(suffix_counts, val) ==
  IF val \in DOMAIN suffix_counts THEN suffix_counts[val] ELSE 0

\* Probe with the check against unique_values left out
ProbeUnchecked(val, count, unique_values) ==
  [count |-> count + 1, new_val |-> Suffixed(val, count + 1)]

\* the `while True` loop: count up until f"{val}.{count}" is unused
RECURSIVE Probe(_, _, _)
Probe(val, count, unique_values) ==
  LET c == count + 1
      new_val == Suffixed(val, c)
  IN  IF new_val \notin unique_values
        THEN [count |-> c, new_val |-> new_val]
        ELSE Probe(val, c, unique_values)

\* the state of the routine before its first iteration
UniqueStart(values) ==
  [values |-> values, result |-> values, unique_values |-> {},
   suffix_counts |-> <<>>, idx |-> 1]

\* UniqueIter that does not record the new name as seen
UniqueIterNoAdd(st) ==
  LET val == st.result[st.idx]
  IN  IF val \notin st.unique_values
        THEN [st EXCEPT !.unique_values = @ \cup {val}, !.idx = @ + 1]
        ELSE LET p == Probe(val, CountOf(st.suffix_counts, val), st.unique_values)
             IN  [st EXCEPT
                    !.suffix_counts =
                       [v \in DOMAIN st.suffix_counts \cup {val} |->
                          IF v = val THEN p.count ELSE st.suffix_counts[v]],
                    !.result = [@ EXCEPT ![st.idx] = p.new_val],
                    !.idx = @ + 1]

\* UniqueIter that never stores the new name in result
UniqueIterNoWrite(st) ==
  LET val == st.result[st.idx]
  IN  IF val \notin st.unique_values
        THEN [st EXCEPT !.unique_values = @ \cup {val}, !.idx = @ + 1]
        ELSE LET p == Probe(val, CountOf(st.suffix_counts, val), st.unique_values)
             IN  [st EXCEPT
                    !.unique_values = @ \cup {p.new_val},
                    !.suffix_counts =
                       [v \in DOMAIN st.suffix_counts \cup {val} |->
                          IF v = val THEN p.count ELSE st.suffix_counts[v]],
                    !.idx = @ + 1]

\* one iteration of `for idx, val in enumerate(result)`
UniqueIter(st) ==
  LET val == st.result[st.idx]
  IN  IF val \notin st.unique_values
        THEN [st EXCEPT !.unique_values = @ \cup {val}, !.idx = @ + 1]
        ELSE LET p == Probe(val, CountOf(st.suffix_counts, val), st.unique_values)
             IN  [st EXCEPT
                    !.unique_values = @ \cup {p.new_val},
                    !.suffix_counts =
                       [v \in DOMAIN st.suffix_counts \cup {val} |->
                          IF v = val THEN p.count ELSE st.suffix_counts[v]],
                    !.result = [@ EXCEPT ![st.idx] = p.new_val],
                    !.idx = @ + 1]

RECURSIVE UniqueRun(_)
UniqueRun(st) == IF st.idx > Len(st.result) THEN st ELSE UniqueRun(UniqueIter(st))

_unique_vals(values) == UniqueRun(UniqueStart(values)).result

----------------------------------------------------------------------------
(* Python dict: a sequence of <<key, value>> items in insertion order *)

HasKey(d, k) == \E i \in DOMAIN d : d[i][1] = k

\* d.get(k, default)
DictGet(d, k, default) ==
  IF HasKey(d, k) THEN d[CHOOSE i \in DOMAIN d : d[i][1] = k][2] ELSE default

\* d[k] = v : an existing key keeps its place, a new key goes last
DictSet(d, k, v) ==
  IF HasKey(d, k)
    THEN [i \in DOMAIN d |-> IF d[i][1] = k THEN <<k, v>> ELSE d[i]]
    ELSE Append(d, <<k, v>>)

\* dict(items): a later item overwrites an earlier one of the same key
RECURSIVE DictFromItems(_)
DictFromItems(items) ==
  IF items = <<>> THEN <<>>
  ELSE LET n == Len(items)
       IN  DictSet(DictFromItems(SubSeq(items, 1, n - 1)), items[n][1], items[n][2])

\* for key in keys: d[key] = v
RECURSIVE DictSetAll(_, _, _)
DictSetAll(d, keys, v) ==
  IF keys = <<>> THEN d ELSE DictSetAll(DictSet(d, Head(keys), v), Tail(keys), v)

----------------------------------------------------------------------------
(* csv.reader and csv.DictReader.  A source text is the sequence of rows   *)
(* csv.reader yields for it, each a sequence of fields; a blank line is    *)
(* the empty row.                                                          *)

\* the list DictReader stores under restkey, as one value
RECURSIVE ListVal(_)
ListVal(fields) ==
  IF Len(fields) = 0 THEN <<"list">>
  ELSE IF Len(fields) = 1 THEN <<"list">> \o fields[1]
  ELSE ListVal(SubSeq(fields, 1, Len(fields) - 1)) \o <<"sep">> \o fields[Len(fields)]

Min(a, b) == IF a < b THEN a ELSE b

\* DictReader.__next__ for one non-blank row (restkey = restval = None)
DictRow(fieldnames, row) ==
  LET lf == Len(fieldnames)
      lr == Len(row)
      d  == DictFromItems([i \in 1..Min(lf, lr) |-> <<fieldnames[i], row[i]>>])
  IN  IF lf < lr THEN DictSet(d, NoneVal, ListVal(SubSeq(row, lf + 1, lr)))
      ELSE IF lf > lr THEN DictSetAll(d, SubSeq(fieldnames, lr + 1, lf), NoneVal)
      ELSE d

\* list(csv.DictReader(file, column_names)): given fieldnames make the first
\* row data, otherwise the first row is the header, taken as it is written
DictReader(file_text, column_names) ==
  LET fieldnames == IF column_names.given THEN column_names.names
                    ELSE IF file_text = <<>> THEN <<>> ELSE Head(file_text)
      data == IF column_names.given THEN file_text
              ELSE IF file_text = <<>> THEN <<>> ELSE Tail(file_text)
      rows == SelectSeq(data, LAMBDA row : row # <<>>)
  IN  [i \in DOMAIN rows |-> DictRow(fieldnames, rows[i])]

----------------------------------------------------------------------------
(* CSVParser and NullCSVParser *)

NullCSVParser ==
  [null |-> TRUE, list_of_dicts |-> <<>>, column_names |-> <<>>,
   file_text |-> <<>>, _index_column |-> <<>>, file_path |-> "null"]

_get_column_names_from_header_row(file_text) ==
  IF file_text = <<>> THEN <<>> ELSE _unique_vals(Head(file_text))

\* column_names is [given, names]: None is given = FALSE
from_csv_text(file_text, column_names) ==
  [null |-> FALSE,
   list_of_dicts |-> DictReader(file_text, column_names),
   column_names |-> IF ~column_names.given \/ column_names.names = <<>>
                      THEN _get_column_names_from_header_row(file_text)
                      ELSE column_names.names,
   file_text |-> file_text,
   _index_column |-> <<>>,
   file_path |-> "init from text"]

from_lines(csv_lines, column_names) ==
  [from_csv_text(csv_lines, column_names) EXCEPT !.file_path = "init from lines"]

from_file(file_path, file_text, column_names) ==
  [from_csv_text(file_text, column_names) EXCEPT !.file_path = file_path]

RECURSIVE LStrip(_)
LStrip(s) == IF s # <<>> /\ Head(s) = " " THEN LStrip(Tail(s)) ELSE s

RECURSIVE RStrip(_)
RStrip(s) ==
  IF s # <<>> /\ s[Len(s)] = " " THEN RStrip(SubSeq(s, 1, Len(s) - 1)) ELSE s

\* x.strip() if isinstance(x, str) else x
Strip(x) == IF IsStr(x) THEN RStrip(LStrip(x)) ELSE x

strip_whitespace(p) ==
  IF p.null THEN p
  ELSE [p EXCEPT
          !.list_of_dicts =
             [r \in DOMAIN p.list_of_dicts |->
                DictFromItems([i \in DOMAIN p.list_of_dicts[r] |->
                   <<Strip(p.list_of_dicts[r][i][1]), Strip(p.list_of_dicts[r][i][2])>>])],
          !.column_names =
             LET strs == SelectSeq(p.column_names, IsStr)
             IN  [i \in DOMAIN strs |-> Strip(strs[i])],
          !._index_column = Strip(p._index_column)]

(* A callable handed to apply_transform or drop_rows_by is a tuple: its name,
   then the values it closes over; Call applies it to a row *)
PyBool(b) == IF b THEN "True" ELSE "False"

\* lambda x: x[column_name] in row_values
row_val_check(row, column_name, row_values) ==
  IF ~HasKey(row, column_name) THEN "KeyError"
  ELSE PyBool(DictGet(row, column_name, <<>>) \in SeqToSet(row_values))

\* lambda row: row["a"] == "x"
a_is_x(row) == IF HasKey(row, TxtA) THEN PyBool(DictGet(row, TxtA, <<>>) = TxtX) ELSE "KeyError"

\* lambda row: row.get("b") == "2"
b_is_2(row) == PyBool(DictGet(row, TxtB, NoneVal) = Txt2)

\* lambda row: row.get("a", "")
copy_a(row) == DictGet(row, TxtA, <<>>)

\* lambda row: "z"
const_z(row) == TxtZ

Call(func, row) ==
  CASE func[1] = "row_val_check" -> row_val_check(row, func[2], func[3])
    [] func[1] = "a_is_x" -> a_is_x(row)
    [] func[1] = "b_is_2" -> b_is_2(row)
    [] func[1] = "copy_a" -> copy_a(row)
    [] func[1] = "const_z" -> const_z(row)

\* apply_transform as CSVParser defines it, with no override in NullCSVParser
ApplyTransformInherited(p, column_name, func) ==
  [p EXCEPT
     !.list_of_dicts =
        [r \in DOMAIN p.list_of_dicts |->
           DictSet(p.list_of_dicts[r], column_name, Call(func, p.list_of_dicts[r]))],
     !.column_names =
        IF column_name \notin SeqToSet(p.column_names)
          THEN Append(p.column_names, column_name) ELSE p.column_names]

\* apply_transform that leaves column_names alone
ApplyTransformNoAppend(p, column_name, func) ==
  IF p.null THEN p
  ELSE [p EXCEPT
          !.list_of_dicts =
             [r \in DOMAIN p.list_of_dicts |->
                DictSet(p.list_of_dicts[r], column_name, Call(func, p.list_of_dicts[r]))]]

\* func is a callable, applied to every row
apply_transform(p, column_name, func) ==
  IF p.null THEN p
  ELSE [p EXCEPT
          !.list_of_dicts =
             [r \in DOMAIN p.list_of_dicts |->
                DictSet(p.list_of_dicts[r], column_name, Call(func, p.list_of_dicts[r]))],
          !.column_names =
             IF column_name \notin SeqToSet(p.column_names)
               THEN Append(p.column_names, column_name) ELSE p.column_names]

get_rows(p, column_name, row_value) ==
  IF column_name \in SeqToSet(p.column_names)
    THEN SelectSeq(p.list_of_dicts,
                   LAMBDA row : DictGet(row, column_name, NoneVal) = row_value)
    ELSE <<>>

get_row(p, column_name, row_value) ==
  LET rows == get_rows(p, column_name, row_value)
  IN  IF rows # <<>> THEN rows[1] ELSE <<>>

drop_columns(p, column_names) ==
  IF p.null THEN p
  ELSE [p EXCEPT
          !.list_of_dicts =
             [r \in DOMAIN p.list_of_dicts |->
                SelectSeq(p.list_of_dicts[r],
                          LAMBDA item : item[1] \notin SeqToSet(column_names))],
          !.column_names =
             SelectSeq(p.column_names, LAMBDA c : c \notin SeqToSet(column_names))]

row_values_in_column(p, column_name) ==
  IF ~p.null /\ column_name \in SeqToSet(p.column_names)
    THEN [r \in DOMAIN p.list_of_dicts |-> DictGet(p.list_of_dicts[r], column_name, <<>>)]
    ELSE <<>>

\* the index_column property; only read where column_names is not empty
\* (an empty column_names raises ValueError: see IndexColumnRaises)
index_column(p) ==
  IF p.null THEN p._index_column
  ELSE IF p._index_column # <<>> THEN p._index_column ELSE p.column_names[1]

IndexColumnRaises(p) == ~p.null /\ p.column_names = <<>>

\* the setter with its first check left out
SetIndexColumnRaisesOneCheck(p, value) ==
  IF p.null THEN ""
  ELSE IF value \notin SeqToSet(p.column_names) THEN "ValueError: Column not found"
  ELSE ""

\* what the index_column setter raises: "" when it raises nothing
SetIndexColumnRaises(p, value) ==
  IF p.null THEN ""
  ELSE IF p.column_names = <<>> THEN "ValueError: No columns available"
  ELSE IF value \notin SeqToSet(p.column_names) THEN "ValueError: Column not found"
  ELSE ""

\* a setter that gives every value of the column a suffix, unique or not
SetIndexColumnSuffixAll(p, value) ==
  IF p.null \/ SetIndexColumnRaises(p, value) # "" THEN p
  ELSE LET q == [p EXCEPT !._index_column = value]
           vals == row_values_in_column(q, q._index_column)
       IN  [q EXCEPT
              !.list_of_dicts =
                 [r \in DOMAIN q.list_of_dicts |->
                    DictSet(q.list_of_dicts[r], index_column(q), Suffixed(vals[r], 1))]]

\* the index_column setter, where it raises nothing
set_index_column(p, value) ==
  IF p.null \/ SetIndexColumnRaises(p, value) # "" THEN p
  ELSE LET q == [p EXCEPT !._index_column = value]
           row_vals == _unique_vals(row_values_in_column(q, q._index_column))
       IN  [q EXCEPT
              !.list_of_dicts =
                 [r \in DOMAIN q.list_of_dicts |->
                    DictSet(q.list_of_dicts[r], index_column(q), row_vals[r])]]

ValueErrorVal == <<"ValueError">>

\* get_value: ValueErrorVal stands for the ValueError the index_column
\* property raises on a parser that has no columns
get_value(p, row_value_in_index_column, column_name) ==
  IF p.null THEN <<>>
  ELSE IF IndexColumnRaises(p) THEN ValueErrorVal
  ELSE DictGet(get_row(p, index_column(p), row_value_in_index_column),
               column_name, <<>>)

\* drop_rows_by: predicate(row) is "True", "False" or the exception it raises;
\* the rows are replaced only when the whole comprehension has run
DropRowsByRaises(p, predicate) ==
  IF p.null THEN ""
  ELSE LET bad == {r \in DOMAIN p.list_of_dicts :
                     Call(predicate, p.list_of_dicts[r]) \notin {"True", "False"}}
       IN  IF bad = {} THEN ""
           ELSE Call(predicate, p.list_of_dicts[CHOOSE r \in bad : \A q \in bad : r <= q])

drop_rows_by(p, predicate) ==
  IF p.null \/ DropRowsByRaises(p, predicate) # "" THEN p
  ELSE [p EXCEPT !.list_of_dicts =
          SelectSeq(p.list_of_dicts, LAMBDA row : Call(predicate, row) = "False")]

DropRowsRaises(p, column_name, row_values) ==
  IF p.null \/ column_name \notin SeqToSet(p.column_names) THEN ""
  ELSE DropRowsByRaises(p, <<"row_val_check", column_name, row_values>>)

drop_rows(p, column_name, row_values) ==
  IF p.null \/ column_name \notin SeqToSet(p.column_names) THEN p
  ELSE drop_rows_by(p, <<"row_val_check", column_name, row_values>>)

\* has_error read off the rows in memory: some row holds another number of
\* keys than there are column_names
HasErrorOfRows(p) ==
  \E r \in DOMAIN p.list_of_dicts : Len(p.list_of_dicts[r]) # Len(p.column_names)

\* the has_error property: csv.reader over file_text, the first row as the
\* header, True at the first later row of another length (a blank line is a
\* row of no field); NullCSVParser inherits it
has_error(p) ==
  IF p.file_text = <<>> THEN FALSE
  ELSE LET expected_cols == Len(Head(p.file_text))
       IN  \E i \in 2..Len(p.file_text) : Len(p.file_text[i]) # expected_cols

\* the position in list_of_dicts of the row get_row returns: 0 when it
\* returns the empty dict
RowIndex(p, column_name, row_value) ==
  LET found == {r \in DOMAIN p.list_of_dicts :
                  /\ column_name \in SeqToSet(p.column_names)
                  /\ DictGet(p.list_of_dicts[r], column_name, NoneVal) = row_value}
  IN  IF found = {} THEN 0 ELSE CHOOSE r \in found : \A q \in found : r <= q

\* set_value raises what the index_column property raises
SetValueRaises(p) == IF IndexColumnRaises(p) THEN "ValueError: No columns available" ELSE ""

\* set_value: the row get_row returns is the dict held in list_of_dicts
set_value(p, row_value_in_index_column, column_name, new_value) ==
  IF p.null \/ SetValueRaises(p) # "" THEN p
  ELSE LET r == RowIndex(p, index_column(p), row_value_in_index_column)
       IN  IF r # 0 /\ p.list_of_dicts[r] # <<>> /\ HasKey(p.list_of_dicts[r], column_name)
             THEN [p EXCEPT !.list_of_dicts[r] = DictSet(@, column_name, new_value)]
             ELSE p

\* write_to_file with the os.path.isfile check left out
WriteToFileRaisesNoCheck(p, fs) == ""

\* os.path.isfile(self.file_path) on the files of fs
WriteToFileRaises(p, fs) ==
  IF ~p.null /\ p.file_path \notin DOMAIN fs THEN "ValueError: Cannot write" ELSE ""

\* the field csv.writer writes for a value: None is written as the empty field
WrittenField(value) == IF value = NoneVal THEN <<>> ELSE value

\* what csv.DictWriter writes: the header line, then one line per row with
\* the row's values in the order of column_names, "" for a missing key; a
\* line of no field is a blank line
WrittenText(p) ==
  <<p.column_names>> \o
  [r \in DOMAIN p.list_of_dicts |->
     [i \in DOMAIN p.column_names |->
        WrittenField(DictGet(p.list_of_dicts[r], p.column_names[i], <<>>))]]

\* the files after write_to_file
write_to_file(p, fs) ==
  IF p.null \/ WriteToFileRaises(p, fs) # "" THEN fs
  ELSE [fs EXCEPT ![p.file_path] = WrittenText(p)]

----------------------------------------------------------------------------
(* CSVCompareOutput and CSVComparer *)

\* the dataclass: every field is a constructor argument
CSVCompareOutput(match_result, first, second, c1, c2, r1, r2, mismatched_rows) ==
  [match_result |-> match_result,
   first_file |-> first,
   second_file |-> second,
   extra_cols_in_first_file |-> c1,
   extra_cols_in_second_file |-> c2,
   extra_rows_in_first_file |-> r1,
   extra_rows_in_second_file |-> r2,
   mismatched_rows |-> mismatched_rows]

NoOutput ==
  CSVCompareOutput(FALSE, "", "", <<>>, <<>>, <<>>, <<>>, <<>>)

\* one section of the text: nothing for an empty list, else the title and
\* one line per element, a tab before it
Section(title, xs) ==
  IF xs = <<>> THEN <<>>
  ELSE <<<<title>>>> \o [i \in DOMAIN xs |-> <<"\t">> \o Str(xs[i])]

\* the lines of the section of mismatched_rows
MismatchSection(mm) ==
  IF mm = <<>> THEN <<>>
  ELSE <<<<"Mismatched rows">>>> \o
       [i \in DOMAIN mm |->
          <<"\trow: ">> \o Str(mm[i].row) \o <<", column: ">> \o Str(mm[i].column)
            \o <<", first: ">> \o Str(mm[i].first)
            \o <<", second: ">> \o Str(mm[i].second)]

\* the text with its sections nested: the rows of a file are listed only
\* under the columns of that file
StrNested(o) ==
  <<<<"First file: ", o.first_file>>,
    <<"Second file: ", o.second_file>>,
    <<"Match result: ", PyBool(o.match_result)>>>>
  \o Section("Extra columns in first file", o.extra_cols_in_first_file)
  \o Section("Extra columns in second file", o.extra_cols_in_second_file)
  \o (IF o.extra_cols_in_first_file # <<>>
        THEN Section("Extra rows in first file", o.extra_rows_in_first_file) ELSE <<>>)
  \o (IF o.extra_cols_in_second_file # <<>>
        THEN Section("Extra rows in second file", o.extra_rows_in_second_file) ELSE <<>>)
  \o MismatchSection(o.mismatched_rows)

\* CSVCompareOutput.__str__: the lines it joins with "\n"
__str__(o) ==
  <<<<"First file: ", o.first_file>>,
    <<"Second file: ", o.second_file>>,
    <<"Match result: ", PyBool(o.match_result)>>>>
  \o Section("Extra columns in first file", o.extra_cols_in_first_file)
  \o Section("Extra columns in second file", o.extra_cols_in_second_file)
  \o Section("Extra rows in first file", o.extra_rows_in_first_file)
  \o Section("Extra rows in second file", o.extra_rows_in_second_file)
  \o MismatchSection(o.mismatched_rows)

\* list(a_set): the elements once each, in an order Python does not fix
Orderings(S) ==
  {q \in [1..Cardinality(S) -> S] : \A i, j \in 1..Cardinality(S) : i # j => q[i] # q[j]}

\* CompareRaises with the two checks in the other order
CompareRaisesSecondFirst(f, s, index_col) ==
  IF index_col \notin SeqToSet(s.column_names)
    THEN "ValueError: Index column not found in second file"
  ELSE IF index_col \notin SeqToSet(f.column_names)
    THEN "ValueError: Index column not found in first file"
  ELSE ""

\* the validation with its second check left out
CompareRaisesFirstOnly(f, s, index_col) ==
  IF index_col \notin SeqToSet(f.column_names)
    THEN "ValueError: Index column not found in first file"
  ELSE ""

\* the ValueError of compare's validation: "" when it raises nothing
CompareRaises(f, s, index_col) ==
  IF index_col \notin SeqToSet(f.column_names)
    THEN "ValueError: Index column not found in first file"
  ELSE IF index_col \notin SeqToSet(s.column_names)
    THEN "ValueError: Index column not found in second file"
  ELSE ""

\* ExtraCols with the symmetric difference in place of the difference
ExtraColsSymmetric(f, s) ==
  (SeqToSet(f.column_names) \ SeqToSet(s.column_names))
    \cup (SeqToSet(s.column_names) \ SeqToSet(f.column_names))

\* list(first_cols - second_cols), as a set
ExtraCols(f, s) == SeqToSet(f.column_names) \ SeqToSet(s.column_names)

\* list(first_rows - second_rows), as a set
ExtraRows(f, s, index_col) ==
  SeqToSet(row_values_in_column(f, index_col))
    \ SeqToSet(row_values_in_column(s, index_col))

CommonColumns(f, s) == SeqToSet(f.column_names) \cap SeqToSet(s.column_names)

\* the rows of the first file taken for the common rows
CommonRowsOfFirst(f, s, index_col) == SeqToSet(row_values_in_column(f, index_col))

CommonRows(f, s, index_col) ==
  SeqToSet(row_values_in_column(f, index_col))
    \cap SeqToSet(row_values_in_column(s, index_col))

\* MismatchedRows that keeps the cells whose two values are equal
MismatchedRowsEqual(f, s, common_rows, common_columns) ==
  LET nc == Len(common_columns)
      cells == [i \in 1..(Len(common_rows) * nc) |->
                  LET row == common_rows[((i - 1) \div nc) + 1]
                      column == common_columns[((i - 1) % nc) + 1]
                  IN  [row |-> row, column |-> column,
                       first |-> get_value(f, row, column),
                       second |-> get_value(s, row, column)]]
  IN  SelectSeq(cells, LAMBDA m : m.first = m.second)

\* the nested loops over common_rows and common_columns, f and s being the
\* two parsers after their index column was set
MismatchedRows(f, s, common_rows, common_columns) ==
  LET nc == Len(common_columns)
      cells == [i \in 1..(Len(common_rows) * nc) |->
                  LET row == common_rows[((i - 1) \div nc) + 1]
                      column == common_columns[((i - 1) % nc) + 1]
                  IN  [row |-> row, column |-> column,
                       first |-> get_value(f, row, column),
                       second |-> get_value(s, row, column)]]
  IN  SelectSeq(cells, LAMBDA m : m.first # m.second)

\* MatchResult that leaves mismatched_rows out of the list
MatchResultNoMismatches(ecf, ecs, erf, ers, mm) ==
  ~(ecf # <<>> \/ ecs # <<>> \/ erf # <<>> \/ ers # <<>>)

\* not any([...]): a list is falsy when it is empty
MatchResult(ecf, ecs, erf, ers, mm) ==
  ~(ecf # <<>> \/ ecs # <<>> \/ erf # <<>> \/ ers # <<>> \/ mm # <<>>)

----------------------------------------------------------------------------
(* Inputs *)

NoColumns == [given |-> FALSE, names |-> <<>>]

GivenColumns(names) == [given |-> TRUE, names |-> names]

\* header rows: plain, a duplicate name, an empty name that is not first
Headers == {<<TxtA, TxtB>>, <<TxtA, TxtA>>, <<TxtB, TxtEmpty>>}

\* the data rows of the sample file: a duplicate key, a key that looks like
\* a generated one, a row shorter and a row longer than the header
SampleLines ==
  <<<<TxtX, Txt1>>, <<TxtX, Txt2>>, <<TxtX1, Txt1>>, <<TxtY>>, <<TxtY, Txt1, Txt2>>>>

\* the rows of lines at the positions I, in their order
RECURSIVE Selection(_, _)
Selection(lines, I) ==
  IF lines = <<>> THEN <<>>
  ELSE LET n == Len(lines)
           front == Selection(SubSeq(lines, 1, n - 1), I)
       IN  IF n \in I THEN Append(front, lines[n]) ELSE front

\* at most MaxRows of the sample rows
Bodies ==
  {Selection(SampleLines, I) :
     I \in {J \in SUBSET DOMAIN SampleLines : Cardinality(J) <= MaxRows}}

Texts == {<<h>> \o body : h \in Headers, body \in Bodies}

CompareKeys == {TxtA, TxtB, TxtEmpty, TxtA1}

\* parsers built with column names the caller supplies (the first line is
\* data then), duplicates and the empty list included
GivenNames == {<<TxtA, TxtB>>, <<TxtA, TxtA>>, <<>>}

GivenTexts == {Selection(SampleLines, I) : I \in SUBSET {1, 2}}

GivenParsers ==
  {from_csv_text(t, GivenColumns(names)) : t \in GivenTexts, names \in GivenNames}

\* the files on disk, by path: their decoded text
Files ==
  [path \in {"first_file.csv", "second_file.csv"} |->
     IF path = "first_file.csv"
       THEN <<<<TxtA, TxtB>>, <<TxtX, Txt1>>>>
       ELSE <<<<TxtA, TxtB>>, <<TxtX, Txt2>>>>]

FilePaths == DOMAIN Files \cup {"non_existent_file.csv"}

\* a comparer session with mutating calls: texts with surrounding blanks
SessionHeaders == {<<TxtA, TxtB>>, <<TxtA, TxtA>>}

SessionLines == <<<<TxtX, Txt1>>, <<TxtXsp, Txt1>>, <<TxtX, Txt2>>>>

SessionTexts ==
  {<<h>> \o Selection(SessionLines, I) :
     h \in SessionHeaders,
     I \in {J \in SUBSET DOMAIN SessionLines : Cardinality(J) <= MaxRows}}

\* files that differ in one column, or in their first column only, and
\* whose second column may be named ""
DropHeaders == {<<TxtA, TxtB>>, <<TxtB, TxtEmpty>>, <<TxtA, TxtEmpty>>}

DropTexts ==
  {<<h>> \o Selection(SessionLines, I) :
     h \in DropHeaders,
     I \in {J \in SUBSET DOMAIN SessionLines : Cardinality(J) <= MaxRows}}

DropColumnsArgs == {<<TxtB>>, <<TxtA1, TxtC>>, <<TxtA, TxtB>>}

\* files of a comparison that is made twice: a plain header, a duplicate
\* name, an empty name; a key twice and a key that looks like a generated one
RepeatLines == <<<<TxtX, Txt1>>, <<TxtX, Txt2>>, <<TxtX1, Txt1>>>>

RepeatTexts ==
  {<<h>> \o Selection(RepeatLines, I) :
     h \in Headers,
     I \in {J \in SUBSET DOMAIN RepeatLines : Cardinality(J) <= MaxRows}}

DropRowsArgs == {<<TxtA, <<TxtX>>>>, <<TxtA1, <<Txt1>>>>}

----------------------------------------------------------------------------
(* CSVComparer: one action per method *)

\* the files on disk and the trace of _unique_vals are left alone
Idle == UNCHANGED <<uv, disk>>

\* CSVComparer.from_lines(first_file_lines, second_file_lines)
FromLines(texts) ==
  /\ call.op = "init"
  /\ \E t1 \in texts, t2 \in texts :
       /\ first_file' = from_lines(t1, NoColumns)
       /\ second_file' = from_lines(t2, NoColumns)
  /\ call' = [op |-> "from_lines", raised |-> ""]
  /\ UNCHANGED <<output, nops, key_set>>
  /\ Idle

ComparerFromLines == FromLines(Texts)

SessionFromLines == FromLines(SessionTexts)

DropFromLines == FromLines(DropTexts)

RepeatFromLines == FromLines(RepeatTexts)

\* CSVComparer.from_files(first_file, second_file)
ComparerFromFiles ==
  /\ call.op = "init"
  /\ \E p1 \in FilePaths, p2 \in FilePaths :
       IF p1 \notin DOMAIN disk \/ p2 \notin DOMAIN disk
         THEN /\ call' = [op |-> "from_files", raised |-> "FileNotFoundError"]
              /\ UNCHANGED <<first_file, second_file>>
         ELSE /\ call' = [op |-> "from_files", raised |-> ""]
              /\ first_file' = from_file(p1, disk[p1], NoColumns)
              /\ second_file' = from_file(p2, disk[p2], NoColumns)
  /\ UNCHANGED <<output, nops, key_set>>
  /\ Idle

\* CSVComparer.from_csv_parsers(first_file_parser, second_file_parser)
ComparerFromParsers ==
  /\ call.op = "init"
  /\ \E p1 \in GivenParsers, p2 \in GivenParsers :
       /\ first_file' = p1
       /\ second_file' = p2
  /\ call' = [op |-> "from_csv_parsers", raised |-> ""]
  /\ UNCHANGED <<output, nops, key_set>>
  /\ Idle

\* the record of a mutating call: its arguments, and the call it came after
Called(op, args, raised) ==
  [op |-> op, args |-> args, raised |-> raised,
   after |-> [op |-> call.op, raised |-> call.raised]]

\* a mutating method of the comparer: the first parser, then the second; an
\* exception in the second leaves the first one changed
Both(op, args, raised1, f, raised2, s) ==
  /\ call.op \notin {"init", "CSVCompareOutput"}
  /\ nops < MaxOps
  /\ nops' = nops + 1
  /\ IF raised1 # ""
       THEN /\ call' = Called(op, args, raised1)
            /\ UNCHANGED <<first_file, second_file>>
       ELSE /\ first_file' = f
            /\ IF raised2 # ""
                 THEN /\ call' = Called(op, args, raised2)
                      /\ UNCHANGED second_file
                 ELSE /\ call' = Called(op, args, "")
                      /\ second_file' = s
  /\ UNCHANGED <<output, key_set>>
  /\ Idle

StripWhitespace ==
  Both("strip_whitespace", <<>>, "", strip_whitespace(first_file),
       "", strip_whitespace(second_file))

DropColumns ==
  \E column_names \in DropColumnsArgs :
    Both("drop_columns", <<column_names>>, "", drop_columns(first_file, column_names),
         "", drop_columns(second_file, column_names))

DropRows ==
  \E arg \in DropRowsArgs :
    Both("drop_rows", arg,
         DropRowsRaises(first_file, arg[1], arg[2]), drop_rows(first_file, arg[1], arg[2]),
         DropRowsRaises(second_file, arg[1], arg[2]), drop_rows(second_file, arg[1], arg[2]))

DropRowsBy ==
  \/ Both("drop_rows_by", <<"a_is_x">>,
          DropRowsByRaises(first_file, <<"a_is_x">>), drop_rows_by(first_file, <<"a_is_x">>),
          DropRowsByRaises(second_file, <<"a_is_x">>), drop_rows_by(second_file, <<"a_is_x">>))
  \/ Both("drop_rows_by", <<"b_is_2">>,
          DropRowsByRaises(first_file, <<"b_is_2">>), drop_rows_by(first_file, <<"b_is_2">>),
          DropRowsByRaises(second_file, <<"b_is_2">>), drop_rows_by(second_file, <<"b_is_2">>))

ApplyTransform ==
  \/ Both("apply_transform", <<TxtC, "copy_a">>, "",
          apply_transform(first_file, TxtC, <<"copy_a">>),
          "", apply_transform(second_file, TxtC, <<"copy_a">>))
  \/ Both("apply_transform", <<TxtB, "const_z">>, "",
          apply_transform(first_file, TxtB, <<"const_z">>),
          "", apply_transform(second_file, TxtB, <<"const_z">>))

\* CSVCompareOutput(...) built by a caller, as the rendering tests build it
OutputLists == {<<>>, <<TxtX>>}

OutputMismatches ==
  {<<>>, <<[row |-> TxtX, column |-> TxtB, first |-> Txt1, second |-> Txt2]>>}

MakeOutput ==
  /\ call.op \in {"init", "CSVCompareOutput"}
  /\ \E match_result \in BOOLEAN, ecf \in OutputLists, ecs \in OutputLists,
        erf \in OutputLists, ers \in OutputLists, mm \in OutputMismatches :
       output' = CSVCompareOutput(match_result, "first_file.csv", "second_file.csv",
                                  ecf, ecs, erf, ers, mm)
  /\ call' = [op |-> "CSVCompareOutput", raised |-> ""]
  /\ UNCHANGED <<first_file, second_file, nops, key_set>>
  /\ Idle

\* compare(index_column)
Compare ==
  /\ call.op \notin {"CSVCompareOutput", "__str__"}
  /\ \E index_col \in CompareKeys :
       LET raised == CompareRaises(first_file, second_file, index_col)
       IN  /\ call' = [op |-> "compare", index_column |-> index_col, raised |-> raised]
           /\ IF raised # ""
                THEN UNCHANGED <<first_file, second_file, output, key_set>>
                ELSE /\ key_set' = TRUE
                     /\ first_file' = set_index_column(first_file, index_col)
                     /\ second_file' = set_index_column(second_file, index_col)
                     /\ \E ecf \in Orderings(ExtraCols(first_file', second_file')),
                           ecs \in Orderings(ExtraCols(second_file', first_file')),
                           erf \in Orderings(ExtraRows(first_file', second_file', index_col)),
                           ers \in Orderings(ExtraRows(second_file', first_file', index_col)),
                           common_columns \in
                             Orderings(CommonColumns(first_file', second_file')),
                           common_rows \in
                             Orderings(CommonRows(first_file', second_file', index_col)) :
                          LET mm == MismatchedRows(first_file', second_file',
                                                   common_rows, common_columns)
                          IN  output' = CSVCompareOutput(
                                 MatchResult(ecf, ecs, erf, ers, mm),
                                 first_file'.file_path, second_file'.file_path,
                                 ecf, ecs, erf, ers, mm)
  /\ UNCHANGED nops
  /\ Idle

\* compare(index_column) called again with the key of the successful
\* compare just made and nothing in between; the record of the call keeps
\* the result of the first one
CompareAgain ==
  /\ call.op = "compare" /\ call.raised = ""
  /\ LET index_col == call.index_column
         raised == CompareRaises(first_file, second_file, index_col)
     IN  /\ call' = [op |-> "compare again", index_column |-> index_col,
                     raised |-> raised, first |-> output]
         /\ IF raised # ""
              THEN UNCHANGED <<first_file, second_file, output, key_set>>
              ELSE /\ key_set' = TRUE
                   /\ first_file' = set_index_column(first_file, index_col)
                   /\ second_file' = set_index_column(second_file, index_col)
                   /\ \E ecf \in Orderings(ExtraCols(first_file', second_file')),
                         ecs \in Orderings(ExtraCols(second_file', first_file')),
                         erf \in Orderings(ExtraRows(first_file', second_file', index_col)),
                         ers \in Orderings(ExtraRows(second_file', first_file', index_col)),
                         common_columns \in
                           Orderings(CommonColumns(first_file', second_file')),
                         common_rows \in
                           Orderings(CommonRows(first_file', second_file', index_col)) :
                        LET mm == MismatchedRows(first_file', second_file',
                                                 common_rows, common_columns)
                        IN  output' = CSVCompareOutput(
                               MatchResult(ecf, ecs, erf, ers, mm),
                               first_file'.file_path, second_file'.file_path,
                               ecf, ecs, erf, ers, mm)
  /\ UNCHANGED nops
  /\ Idle

\* CSVComparer.from_lines(second_file_lines, first_file_lines): the lines of
\* a comparer whose only call was the compare just made, given the other way
\* round; the caller keeps the result of that compare in output
ComparerFromLinesSwapped ==
  /\ call.op = "compare" /\ call.raised = ""
  /\ first_file.file_path = "init from lines"
  /\ second_file.file_path = "init from lines"
  /\ first_file =
       set_index_column(from_lines(first_file.file_text, NoColumns), call.index_column)
  /\ second_file =
       set_index_column(from_lines(second_file.file_text, NoColumns), call.index_column)
  /\ first_file' = from_lines(second_file.file_text, NoColumns)
  /\ second_file' = from_lines(first_file.file_text, NoColumns)
  /\ call' = [op |-> "from_lines swapped", raised |-> "",
              index_column |-> call.index_column]
  /\ key_set' = FALSE
  /\ UNCHANGED <<output, nops>>
  /\ Idle

\* str(output), of a result a caller built or compare returned
RenderOutput ==
  /\ \/ call.op = "CSVCompareOutput"
     \/ call.op = "compare" /\ call.raised = ""
  /\ call' = [op |-> "__str__", raised |-> "", result |-> __str__(output)]
  /\ UNCHANGED <<first_file, second_file, output, nops, key_set>>
  /\ Idle

Init ==
  /\ first_file = NullCSVParser
  /\ second_file = NullCSVParser
  /\ output = NoOutput
  /\ call = [op |-> "init", raised |-> ""]
  /\ nops = 0
  /\ uv = [st |-> UniqueStart(<<>>), run |-> 0, input |-> <<>>]
  /\ disk = Files
  /\ key_set = FALSE

Next ==
  \/ ComparerFromLines
  \/ ComparerFromFiles
  \/ ComparerFromParsers
  \/ Compare
  \/ MakeOutput
  \/ RenderOutput
  \/ ComparerFromLinesSwapped

Spec == Init /\ [][Next]_vars

\* a session on a comparer: construction, mutating calls, compare
NextSession ==
  \/ SessionFromLines
  \/ StripWhitespace
  \/ DropColumns
  \/ DropRows
  \/ DropRowsBy
  \/ ApplyTransform
  \/ Compare

SpecSession == Init /\ [][NextSession]_vars

\* a comparer that is asked the same comparison twice
NextRepeat ==
  \/ RepeatFromLines
  \/ ComparerFromParsers
  \/ Compare
  \/ CompareAgain

SpecRepeat == Init /\ [][NextRepeat]_vars

\* a comparer on which columns are dropped between compares
NextDrop ==
  \/ DropFromLines
  \/ DropColumns
  \/ Compare

SpecDrop == Init /\ [][NextDrop]_vars

----------------------------------------------------------------------------
(* A session on one CSVParser, held in first_file (specification          *)
(* SpecParser): a factory call, then calls on the parser.  key_set tells  *)
(* that the index_column setter has stored a column name.                 *)

\* headers: plain, and one whose second name is empty; the data rows have a
\* duplicate in each column and a value with a leading blank
ParserHeaders == {<<TxtA, TxtB>>, <<TxtB, TxtEmpty>>}

ParserLines == <<<<TxtX, Txt1>>, <<TxtX, Txt2>>, <<TxtXsp, Txt1>>>>

\* the empty text, and a header with at most MaxRows of the data rows
ParserTexts ==
  {<<>>} \cup
  {<<h>> \o Selection(ParserLines, I) :
     h \in ParserHeaders,
     I \in {J \in SUBSET DOMAIN ParserLines : Cardinality(J) <= MaxRows}}

ParserColumnArgs == {NoColumns, GivenColumns(<<TxtA, TxtA>>)}

ParserKeys == {TxtA, TxtB, TxtEmpty}

ParserDropColumnsArgs == {<<TxtA>>, <<TxtB, TxtEmpty>>, <<TxtA, TxtB>>}

ParserDropRowsArgs == {<<TxtA, <<TxtX>>>>, <<TxtB, <<Txt1, Txt2>>>>}

\* (row_value_in_index_column, column_name) of get_value and set_value
CellArgs == {<<TxtX, TxtA>>, <<TxtX, TxtB>>, <<Txt1, TxtB>>, <<Txt1, TxtC>>}

\* a parser exists: a factory has returned one
Loaded == call.op # "init" /\ ~(call.op = "CSVParser.from_file" /\ call.raised # "")

\* CSVParser.from_lines(csv_lines)
ParserFromLines ==
  /\ call.op = "init"
  /\ \E t \in ParserTexts : first_file' = from_lines(t, NoColumns)
  /\ call' = [op |-> "CSVParser.from_lines", raised |-> ""]
  /\ UNCHANGED <<second_file, output, nops, key_set>>
  /\ Idle

\* CSVParser.from_file(file_path, column_names)
ParserFromFile ==
  /\ call.op = "init"
  /\ \E file_path \in FilePaths, column_names \in ParserColumnArgs :
       IF file_path \notin DOMAIN disk
         THEN /\ call' = [op |-> "CSVParser.from_file", raised |-> "FileNotFoundError"]
              /\ UNCHANGED first_file
         ELSE /\ call' = [op |-> "CSVParser.from_file", raised |-> ""]
              /\ first_file' = from_file(file_path, disk[file_path], column_names)
  /\ UNCHANGED <<second_file, output, nops, key_set>>
  /\ Idle

\* NullCSVParser()
ParserNull ==
  /\ call.op = "init"
  /\ first_file' = NullCSVParser
  /\ call' = [op |-> "NullCSVParser", raised |-> ""]
  /\ UNCHANGED <<second_file, output, nops, key_set>>
  /\ Idle

\* a call on the parser that touches no file: it raises, or leaves parser p
\* and returns result
ParserCall(op, args, raised, p, result) ==
  /\ Loaded
  /\ nops < MaxCalls
  /\ nops' = nops + 1
  /\ call' = [op |-> op, args |-> args, raised |-> raised,
              result |-> IF raised # "" THEN NoneVal ELSE result]
  /\ first_file' = IF raised # "" THEN first_file ELSE p
  /\ UNCHANGED <<second_file, output>>
  /\ Idle

\* parser.index_column = value
SetIndexColumn ==
  \E value \in ParserKeys :
    /\ ParserCall("index_column.setter", <<value>>,
                  SetIndexColumnRaises(first_file, value),
                  set_index_column(first_file, value), NoneVal)
    /\ key_set' = (key_set \/ (~first_file.null
                                /\ SetIndexColumnRaises(first_file, value) = ""))

ParserStripWhitespace ==
  /\ ParserCall("strip_whitespace", <<>>, "", strip_whitespace(first_file), NoneVal)
  /\ UNCHANGED key_set

ParserApplyTransform ==
  /\ \/ ParserCall("apply_transform", <<TxtC, "copy_a">>, "",
                   apply_transform(first_file, TxtC, <<"copy_a">>), NoneVal)
     \/ ParserCall("apply_transform", <<TxtB, "const_z">>, "",
                   apply_transform(first_file, TxtB, <<"const_z">>), NoneVal)
  /\ UNCHANGED key_set

ParserDropColumns ==
  /\ \E column_names \in ParserDropColumnsArgs :
       ParserCall("drop_columns", <<column_names>>, "",
                  drop_columns(first_file, column_names), NoneVal)
  /\ UNCHANGED key_set

ParserDropRows ==
  /\ \E arg \in ParserDropRowsArgs :
       ParserCall("drop_rows", arg, DropRowsRaises(first_file, arg[1], arg[2]),
                  drop_rows(first_file, arg[1], arg[2]), NoneVal)
  /\ UNCHANGED key_set

ParserDropRowsBy ==
  /\ \E predicate \in {<<"a_is_x">>, <<"b_is_2">>} :
       ParserCall("drop_rows_by", predicate, DropRowsByRaises(first_file, predicate),
                  drop_rows_by(first_file, predicate), NoneVal)
  /\ UNCHANGED key_set

\* parser.set_value(row_value_in_index_column, column_name, "z")
SetValue ==
  /\ \E arg \in CellArgs :
       ParserCall("set_value", arg, SetValueRaises(first_file),
                  set_value(first_file, arg[1], arg[2], TxtZ), NoneVal)
  /\ UNCHANGED key_set

\* parser.get_value(row_value_in_index_column, column_name)
GetValue ==
  /\ \E arg \in CellArgs :
       LET value == get_value(first_file, arg[1], arg[2])
       IN  ParserCall("get_value", arg,
                      IF value = ValueErrorVal THEN "ValueError: No columns available"
                      ELSE "",
                      first_file, value)
  /\ UNCHANGED key_set

\* parser.write_to_file()
WriteToFile ==
  /\ Loaded
  /\ nops < MaxCalls
  /\ nops' = nops + 1
  /\ call' = [op |-> "write_to_file", args |-> <<>>,
              raised |-> WriteToFileRaises(first_file, disk), result |-> NoneVal]
  /\ disk' = write_to_file(first_file, disk)
  /\ UNCHANGED <<first_file, second_file, output, uv, key_set>>

NextParser ==
  \/ ParserFromLines
  \/ ParserFromFile
  \/ ParserNull
  \/ SetIndexColumn
  \/ ParserStripWhitespace
  \/ ParserApplyTransform
  \/ ParserDropColumns
  \/ ParserDropRows
  \/ ParserDropRowsBy
  \/ SetValue
  \/ GetValue
  \/ WriteToFile

SpecParser == Init /\ [][NextParser]_vars

----------------------------------------------------------------------------
(* A session on one CSVParser built from a text whose rows need not have   *)
(* the length of the header (specification SpecShape)                     *)

\* headers: plain, and a repeated name that de-duplication renames
ShapeHeaders == {<<TxtA, TxtB>>, <<TxtA, TxtA>>}

\* data rows: as long as the header, shorter, longer, and a blank line
ShapeLines == <<<<TxtX, Txt1>>, <<TxtY>>, <<TxtY, Txt1, Txt2>>, <<>>>>

ShapeTexts ==
  {<<h>> \o Selection(ShapeLines, I) :
     h \in ShapeHeaders,
     I \in {J \in SUBSET DOMAIN ShapeLines : Cardinality(J) <= MaxRows}}

\* CSVParser.from_lines(csv_lines)
ShapeFromLines ==
  /\ call.op = "init"
  /\ \E t \in ShapeTexts : first_file' = from_lines(t, NoColumns)
  /\ call' = [op |-> "CSVParser.from_lines", raised |-> ""]
  /\ UNCHANGED <<second_file, output, nops, key_set>>
  /\ Idle

\* parser.drop_rows(column_name, row_values), also on a column that
\* de-duplication named
ShapeDropRows ==
  /\ \E arg \in DropRowsArgs :
       ParserCall("drop_rows", arg, DropRowsRaises(first_file, arg[1], arg[2]),
                  drop_rows(first_file, arg[1], arg[2]), NoneVal)
  /\ UNCHANGED key_set

\* parser.has_error
HasError ==
  /\ ParserCall("has_error", <<>>, "", first_file, PyBool(has_error(first_file)))
  /\ UNCHANGED key_set

NextShape ==
  \/ ShapeFromLines
  \/ SetIndexColumn
  \/ ParserStripWhitespace
  \/ ParserApplyTransform
  \/ ParserDropColumns
  \/ ShapeDropRows
  \/ SetValue
  \/ HasError

SpecShape == Init /\ [][NextShape]_vars

----------------------------------------------------------------------------
(* Properties of a repeated compare (specification SpecRepeat) *)

\* the results agree on match_result and, as sets, on the five collections
SameResult(o, p) ==
  /\ o.match_result = p.match_result
  /\ SeqToSet(o.extra_cols_in_first_file) = SeqToSet(p.extra_cols_in_first_file)
  /\ SeqToSet(o.extra_cols_in_second_file) = SeqToSet(p.extra_cols_in_second_file)
  /\ SeqToSet(o.extra_rows_in_first_file) = SeqToSet(p.extra_rows_in_first_file)
  /\ SeqToSet(o.extra_rows_in_second_file) = SeqToSet(p.extra_rows_in_second_file)
  /\ SeqToSet(o.mismatched_rows) = SeqToSet(p.mismatched_rows)

\* C26: a compare(k) right after a successful compare(k) raises nothing,
\* returns the match_result and, as sets, the collections of the first one,
\* and leaves the rows, the column_names and the index column of both
\* parsers as the first call left them
C26_CompareRepeatable ==
  [][call'.op = "compare again"
       => /\ call'.raised = ""
          /\ call'.first = output
          /\ SameResult(output', output)
          /\ first_file' = first_file
          /\ second_file' = second_file]_vars

\* the first compare renamed a key value of the first parser and found two
\* mismatches; the second one lists them in the other order
C26_Witness ==
  /\ call.op = "compare again"
  /\ call.raised = ""
  /\ call.first # output
  /\ ~output.match_result
  /\ Len(output.mismatched_rows) = 2
  /\ \E r \in DOMAIN first_file.list_of_dicts :
       DictGet(first_file.list_of_dicts[r], call.index_column, <<>>) = TxtX1
  /\ first_file.list_of_dicts #
       from_lines(first_file.file_text, NoColumns).list_of_dicts

----------------------------------------------------------------------------
(* Properties of one parser (specification SpecParser) *)

\* the step is a call op on the parser
StepOf(op) == call'.op = op /\ nops' = nops + 1

\* C11: once the index column of a parser has been set, the values of that
\* column are pairwise different in all rows, right after the set and after
\* every later strip_whitespace, apply_transform, drop_columns, drop_rows,
\* drop_rows_by and set_value
C11_KeyValuesUnique ==
  key_set /\ ~first_file.null
    => NoDuplicates(row_values_in_column(first_file, first_file._index_column))

\* C12: the index_column setter raises the state error on a parser of no
\* columns and the validation error for a name that is not a column, and
\* then the stored index column and the rows are as they were
C12_SetterErrors ==
  [][StepOf("index_column.setter") /\ ~first_file.null
       => /\ first_file.column_names = <<>>
               => call'.raised = "ValueError: No columns available"
          /\ first_file.column_names # <<>>
               /\ call'.args[1] \notin SeqToSet(first_file.column_names)
               => call'.raised = "ValueError: Column not found"
          /\ call'.raised # "" => first_file' = first_file /\ key_set' = key_set
          /\ call'.raised = ""
               => call'.args[1] \in SeqToSet(first_file.column_names)]_vars

C12_Witness ==
  /\ call.op = "index_column.setter"
  /\ call.raised = "ValueError: Column not found"
  /\ key_set
  /\ first_file._index_column # <<>>
  /\ first_file.list_of_dicts # <<>>

\* C13: the index column stored by an explicit set is one of column_names,
\* in every later state
C13_KeyInColumns ==
  key_set /\ ~first_file.null
    => first_file._index_column \in SeqToSet(first_file.column_names)

\* the text get_value is to return: the cell of the first row whose value in
\* the current index column is key, "" without such a row or such a cell
ExpectedCell(p, key, column_name) ==
  LET rows == SelectSeq(p.list_of_dicts,
                        LAMBDA row : HasKey(row, index_column(p))
                                       /\ DictGet(row, index_column(p), <<>>) = key)
  IN  IF rows = <<>> \/ ~HasKey(rows[1], column_name) THEN <<>>
      ELSE DictGet(rows[1], column_name, <<>>)

\* C14: get_value never fails, whatever the state of the parser, and returns
\* the cell of the row whose index column holds the key, "" when there is no
\* such row or no such column in it
C14_GetValueNeverFails ==
  call.op = "get_value"
    => /\ call.raised = ""
       /\ ~first_file.null /\ first_file.column_names # <<>>
            => call.result = ExpectedCell(first_file, call.args[1], call.args[2])

\* C15: on a NullCSVParser no call fails and none changes anything: no
\* columns, no rows, file_path "null", nothing written, and the reads return
\* "" or the empty list
C15_NullUnchanged ==
  first_file.null /\ call.op # "CSVParser.from_file"
    => /\ first_file = NullCSVParser
       /\ first_file.column_names = <<>> /\ first_file.list_of_dicts = <<>>
       /\ first_file.file_path = "null"
       /\ call.raised = ""
       /\ disk = Files
       /\ ~key_set
       /\ index_column(first_file) = <<>>
       /\ \A c \in ParserKeys : row_values_in_column(first_file, c) = <<>>
       /\ \A arg \in CellArgs : get_value(first_file, arg[1], arg[2]) = <<>>
       /\ call.op = "get_value" => call.result = <<>>

C15_Witness ==
  /\ first_file.null
  /\ nops >= 2
  /\ call.op = "apply_transform"

\* C17 as stated: write_to_file raises for every parser whose file_path is
\* not a file on disk, the NullCSVParser with its "null" included
C17_WriteFailsWithoutFile ==
  call.op = "write_to_file" /\ first_file.file_path \notin DOMAIN disk
    => call.raised # ""

\* C17: write_to_file on a CSVParser whose file_path is not a file on disk
\* raises, writes nothing and leaves the parser as it was; on a NullCSVParser
\* it does nothing and raises nothing
C17_WriteFailsUnlessNull ==
  [][StepOf("write_to_file") /\ first_file.file_path \notin DOMAIN disk
       => /\ disk' = disk
          /\ first_file' = first_file
          /\ call'.raised = IF first_file.null THEN ""
                            ELSE "ValueError: Cannot write"]_vars

C17_Witness ==
  /\ call.op = "write_to_file"
  /\ call.raised = "ValueError: Cannot write"
  /\ first_file.file_path = "init from lines"
  /\ first_file.list_of_dicts # <<>>
  /\ disk = Files

\* the parsers agree on column_names and, row by row, on every cell of these
\* columns (a cell the row does not hold reads as "")
SameCells(p, q) ==
  /\ p.column_names = q.column_names
  /\ Len(p.list_of_dicts) = Len(q.list_of_dicts)
  /\ \A r \in DOMAIN p.list_of_dicts :
       \A c \in SeqToSet(p.column_names) :
          DictGet(p.list_of_dicts[r], c, <<>>) = DictGet(q.list_of_dicts[r], c, <<>>)

\* C18: after write_to_file on a parser built from a file, parsing that file
\* again gives the column_names, in order, and the cells of the parser
C18_WriteBackRoundTrip ==
  call.op = "write_to_file" /\ call.raised = "" /\ ~first_file.null
    => SameCells(first_file,
                 from_file(first_file.file_path, disk[first_file.file_path], NoColumns))

\* the rows whose cell in the current index column is key
RowsOfKey(p, key) ==
  {r \in DOMAIN p.list_of_dicts :
     /\ HasKey(p.list_of_dicts[r], index_column(p))
     /\ DictGet(p.list_of_dicts[r], index_column(p), <<>>) = key}

\* C25: set_value(key, column, v) on a CSVParser raises nothing; it changes
\* nothing when no row holds key in the current index column or when the
\* first such row has no cell of that column; otherwise it sets that one
\* cell to v, leaves every other cell, every other row, column_names and the
\* stored index column as they were, and get_value(key, column) then
\* returns v
C25_SetValueOneCell ==
  [][StepOf("set_value") /\ ~first_file.null
       => LET key == call'.args[1]
              column == call'.args[2]
              found == RowsOfKey(first_file, key)
              r == CHOOSE i \in found : \A j \in found : i <= j
          IN  /\ call'.raised = ""
              /\ IF found = {} \/ ~HasKey(first_file.list_of_dicts[r], column)
                   THEN first_file' = first_file
                   ELSE /\ first_file' =
                             [first_file EXCEPT
                                !.list_of_dicts[r] = DictSet(@, column, TxtZ)]
                        /\ get_value(first_file', key, column) = TxtZ]_vars

----------------------------------------------------------------------------
(* Properties of one parser built from rows of any length (specification   *)
(* SpecShape)                                                              *)

\* some row after the first has another number of fields than the first
Ragged(file_text) ==
  \E i \in DOMAIN file_text : i > 1 /\ Len(file_text[i]) # Len(file_text[1])

\* C21: has_error raises nothing and is True exactly when a row of the
\* stored text after the first has another number of fields than the first;
\* no strip_whitespace, drop_columns, drop_rows, apply_transform, set_value
\* or set of the index column changes the stored text or the value of
\* has_error, and reading has_error changes nothing
C21_HasErrorOfSourceText ==
  [][Loaded /\ nops' = nops + 1
       => /\ first_file'.file_text = first_file.file_text
          /\ has_error(first_file') = has_error(first_file)
          /\ has_error(first_file') = Ragged(first_file.file_text)
          /\ call'.op = "has_error"
               => /\ call'.raised = ""
                  /\ call'.result = PyBool(Ragged(first_file.file_text))
                  /\ first_file' = first_file]_vars

C21_Witness ==
  /\ call.op = "has_error"
  /\ call.result = "True"
  /\ nops = MaxCalls
  /\ first_file.list_of_dicts # <<>>
  /\ \A r \in DOMAIN first_file.list_of_dicts :
       Len(first_file.list_of_dicts[r]) = Len(first_file.column_names)

\* the keys of the row, as a set
RowKeys(row) == {row[i][1] : i \in DOMAIN row}

\* C22: in every state of a parser, right after construction and after every
\* mutation, the keys of every row are among column_names
C22_RowKeysInColumns ==
  Loaded => \A r \in DOMAIN first_file.list_of_dicts :
               RowKeys(first_file.list_of_dicts[r]) \subseteq SeqToSet(first_file.column_names)

\* C23: drop_rows(c, V) leaves the parser as it was when c is not one of
\* column_names; for every c of column_names, a name made by header
\* de-duplication included, it raises nothing, removes exactly the rows whose
\* value in column c is in V, keeps the other rows in their order and leaves
\* column_names as they were
C23_DropRowsByValue ==
  [][StepOf("drop_rows")
       => LET c == call'.args[1]
              V == SeqToSet(call'.args[2])
          IN  /\ call'.raised = ""
              /\ first_file'.column_names = first_file.column_names
              /\ first_file'._index_column = first_file._index_column
              /\ first_file'.list_of_dicts =
                   IF c \notin SeqToSet(first_file.column_names)
                     THEN first_file.list_of_dicts
                     ELSE SelectSeq(first_file.list_of_dicts,
                                    LAMBDA row : DictGet(row, c, <<>>) \notin V)]_vars

\* the rows hold the same cells, but for those of column_name
SameOtherCells(row, new_row, column_name) ==
  \A k \in (RowKeys(row) \cup RowKeys(new_row)) \ {column_name} :
     /\ HasKey(row, k) /\ HasKey(new_row, k)
     /\ DictGet(new_row, k, <<>>) = DictGet(row, k, <<>>)

\* C24: apply_transform(X, f) on a CSVParser sets the cell of column X of
\* every row to f(the row as it was before the call); X is appended to
\* column_names as their last name when it was not one of them, and
\* column_names are unchanged otherwise; the rows keep their number and
\* order and every cell of every other column
C24_ApplyTransform ==
  [][StepOf("apply_transform")
       => LET X == call'.args[1]
              f == <<call'.args[2]>>
              rows == first_file.list_of_dicts
              new_rows == first_file'.list_of_dicts
          IN  /\ call'.raised = ""
              /\ first_file'.column_names =
                   IF X \in SeqToSet(first_file.column_names)
                     THEN first_file.column_names
                     ELSE Append(first_file.column_names, X)
              /\ Len(new_rows) = Len(rows)
              /\ \A r \in DOMAIN rows :
                   /\ HasKey(new_rows[r], X)
                   /\ DictGet(new_rows[r], X, <<>>) = Call(f, rows[r])
                   /\ SameOtherCells(rows[r], new_rows[r], X)
              /\ first_file'._index_column = first_file._index_column]_vars

\* a new column has been derived from a column the rows differ in
C24_Witness ==
  /\ call.op = "apply_transform"
  /\ call.args = <<TxtC, "copy_a">>
  /\ first_file.column_names = <<TxtA, TxtB, TxtC>>
  /\ Len(first_file.list_of_dicts) = 2
  /\ DictGet(first_file.list_of_dicts[1], TxtC, <<>>) = TxtX
  /\ DictGet(first_file.list_of_dicts[2], TxtC, <<>>) = TxtY

\* the lines of the text that become rows: those after the header that are
\* not blank
DataLines(file_text) == SelectSeq(Tail(file_text), LAMBDA line : line # <<>>)

\* C28: right after from_lines on a text with a header row, every row holds
\* under column_names[i] the i-th field of its line, for every position i of
\* the header that the line has, also when the header holds a name twice and
\* de-duplication renamed it
C28_ColumnsAddressFields ==
  call.op = "CSVParser.from_lines" /\ first_file.file_text # <<>>
    => LET lines == DataLines(first_file.file_text)
           header == Head(first_file.file_text)
       IN  /\ Len(first_file.column_names) = Len(header)
           /\ Len(first_file.list_of_dicts) = Len(lines)
           /\ \A r \in DOMAIN lines :
                \A i \in 1..Min(Len(header), Len(lines[r])) :
                   /\ HasKey(first_file.list_of_dicts[r], first_file.column_names[i])
                   /\ DictGet(first_file.list_of_dicts[r],
                              first_file.column_names[i], <<>>) = lines[r][i]

----------------------------------------------------------------------------
(* Properties of compare and of construction (specification Spec) *)

Compared == call.op = "compare" /\ call.raised = ""

AllEmpty(o) ==
  /\ o.extra_cols_in_first_file = <<>>
  /\ o.extra_cols_in_second_file = <<>>
  /\ o.extra_rows_in_first_file = <<>>
  /\ o.extra_rows_in_second_file = <<>>
  /\ o.mismatched_rows = <<>>

ColumnArgs == {NoColumns} \cup {GivenColumns(names) : names \in GivenNames}

\* p is as a factory left it: nothing was called on it since it was built
Fresh(p) ==
  /\ ~p.null
  /\ \E column_names \in ColumnArgs :
       [p EXCEPT !.file_path = ""]
         = [from_csv_text(p.file_text, column_names) EXCEPT !.file_path = ""]

SameContent(p, q) == [p EXCEPT !.file_path = ""] = [q EXCEPT !.file_path = ""]

\* C1: a compare(k) of two parsers built independently from the same content, k
\* being one of their columns, returns match_result = true and five empty
\* collections, whatever the content (duplicate header names, duplicate keys,
\* rows shorter or longer than the header)
C1_SelfCompareMatches ==
  [][(/\ Fresh(first_file)
      /\ SameContent(first_file, second_file)
      /\ call'.op = "compare"
      /\ call'.index_column \in SeqToSet(first_file.column_names))
     => (/\ call'.raised = ""
         /\ output'.match_result
         /\ AllEmpty(output'))]_vars

\* C1 witness: a successful compare of two copies of a text with a duplicate
\* header name, a duplicate key and a row longer than the header
C1_Witness ==
  /\ Compared
  /\ first_file.file_text = <<<<TxtA, TxtA>>, <<TxtY>>, <<TxtY, Txt1, Txt2>>>>
  /\ second_file.file_text = first_file.file_text
  /\ call.index_column = TxtA
  /\ output.match_result
  /\ AllEmpty(output)

\* C2 as stated: every Comparison Result, however it was made, has
\* match_result = true exactly when its five collections are empty
C2_EveryResultConsistent ==
  call.op \in {"compare", "CSVCompareOutput"} /\ call.raised = ""
    => (output.match_result <=> AllEmpty(output))

\* C2 amended: every Comparison Result returned by compare has match_result =
\* true exactly when its five collections are empty
C2_CompareResultConsistent ==
  Compared => (output.match_result <=> AllEmpty(output))

\* C2 witness: a result of compare whose only non-empty collection is
\* mismatched_rows, with match_result = false
C2_Witness ==
  /\ Compared
  /\ ~output.match_result
  /\ output.mismatched_rows # <<>>
  /\ output.extra_cols_in_first_file = <<>>
  /\ output.extra_cols_in_second_file = <<>>
  /\ output.extra_rows_in_first_file = <<>>
  /\ output.extra_rows_in_second_file = <<>>

\* C3: after a successful compare, extra_cols_in_first_file lists each name of
\* first.columns minus second.columns once, extra_cols_in_second_file each name
\* of second.columns minus first.columns once, and the two share no name
C3_ExtraColumns ==
  Compared =>
    /\ SeqToSet(output.extra_cols_in_first_file)
         = SeqToSet(first_file.column_names) \ SeqToSet(second_file.column_names)
    /\ SeqToSet(output.extra_cols_in_second_file)
         = SeqToSet(second_file.column_names) \ SeqToSet(first_file.column_names)
    /\ NoDuplicates(output.extra_cols_in_first_file)
    /\ NoDuplicates(output.extra_cols_in_second_file)
    /\ SeqToSet(output.extra_cols_in_first_file)
         \cap SeqToSet(output.extra_cols_in_second_file) = {}

\* C3 witness: a compare that found an extra column on each side
C3_Witness ==
  /\ Compared
  /\ output.extra_cols_in_first_file # <<>>
  /\ output.extra_cols_in_second_file # <<>>

\* the key values of p for the column index_col, each side having renamed its
\* own duplicates
KeyValues(p, index_col) == _unique_vals(row_values_in_column(p, index_col))

\* C4: a successful compare(k) returns in extra_rows_in_first_file the first
\* parser's key values (its duplicate values of column k disambiguated) minus
\* the second's, in extra_rows_in_second_file the difference the other way;
\* the two share no key and hold no key that is in both parsers
C4_ExtraRows ==
  [][(call'.op = "compare" /\ call'.raised = "")
     => LET k == call'.index_column
            first_keys == SeqToSet(KeyValues(first_file, k))
            second_keys == SeqToSet(KeyValues(second_file, k))
            erf == SeqToSet(output'.extra_rows_in_first_file)
            ers == SeqToSet(output'.extra_rows_in_second_file)
        IN  /\ erf = first_keys \ second_keys
            /\ ers = second_keys \ first_keys
            /\ erf \cap ers = {}
            /\ (erf \cup ers) \cap (first_keys \cap second_keys) = {}]_vars

\* the cell of column c in the row of p that compare(k) addresses by the key r
CellOf(p, k, r, c) ==
  LET keys == KeyValues(p, k)
      i == CHOOSE j \in DOMAIN keys : keys[j] = r
  IN  IF c = k THEN r ELSE DictGet(p.list_of_dicts[i], c, <<>>)

\* C5: a successful compare(k) returns in mismatched_rows exactly one record
\* {row, column, first, second} for each common key r and common column c
\* whose cells differ in the two parsers, first and second being those cells,
\* and no other record
C5_Mismatches ==
  [][(call'.op = "compare" /\ call'.raised = "")
     => LET k == call'.index_column
            rows == SeqToSet(KeyValues(first_file, k))
                      \cap SeqToSet(KeyValues(second_file, k))
            columns == SeqToSet(first_file.column_names)
                         \cap SeqToSet(second_file.column_names)
            expected ==
              {[row |-> r, column |-> c,
                first |-> CellOf(first_file, k, r, c),
                second |-> CellOf(second_file, k, r, c)] :
                 <<r, c>> \in {rc \in rows \X columns :
                                 CellOf(first_file, k, rc[1], rc[2])
                                   # CellOf(second_file, k, rc[1], rc[2])}}
        IN  /\ SeqToSet(output'.mismatched_rows) = expected
            /\ NoDuplicates(output'.mismatched_rows)]_vars

\* C6: compare(k) raises the validation error whenever k is missing from the
\* columns of a parser, naming the first file when the first parser lacks k
\* (also when both do, and when the parsers are the null placeholders) and the
\* second file when only the second lacks k
C6_ValidationError ==
  call.op = "compare" =>
    LET k == call.index_column
        in_first == k \in SeqToSet(first_file.column_names)
        in_second == k \in SeqToSet(second_file.column_names)
    IN  /\ ~in_first =>
             call.raised = "ValueError: Index column not found in first file"
        /\ in_first /\ ~in_second =>
             call.raised = "ValueError: Index column not found in second file"

\* C6 witness: compare(k) failed on a key the first parser has and the second
\* lacks
C6_Witness ==
  /\ call.op = "compare"
  /\ call.raised = "ValueError: Index column not found in second file"
  /\ call.index_column \in SeqToSet(first_file.column_names)
  /\ call.index_column \notin SeqToSet(second_file.column_names)

\* C27: a compare(k) whose k is not a column of both parsers raises the
\* validation error and leaves the rows, the column_names and the stored
\* index column of both parsers as they were before the call, also when k
\* is a column of the first parser and only the second lacks it
C27_FailedCompareChangesNothing ==
  [][/\ call'.op = "compare"
     /\ \/ call'.raised # ""
        \/ call'.index_column \notin SeqToSet(first_file.column_names)
        \/ call'.index_column \notin SeqToSet(second_file.column_names)
     => /\ call'.raised # ""
        /\ first_file' = first_file
        /\ second_file' = second_file
        /\ output' = output]_vars

\* compare(k) failed for the second parser only, after a compare on another
\* key, and the first parser holds a value twice in column k, which a set of
\* the index column would have renamed
C27_Witness ==
  /\ call.op = "compare"
  /\ call.raised = "ValueError: Index column not found in second file"
  /\ key_set
  /\ first_file._index_column # call.index_column
  /\ ~NoDuplicates(row_values_in_column(first_file, call.index_column))

\* C7: right after construction, by any factory and with the header row or
\* with column names of the caller, column_names holds no name twice
C7_ColumnsUnique ==
  call.op \in {"from_lines", "from_files", "from_csv_parsers"} /\ call.raised = ""
    => /\ NoDuplicates(first_file.column_names)
       /\ NoDuplicates(second_file.column_names)

\* the titles of the sections, in the order of the text
SectionTitles ==
  <<"Extra columns in first file", "Extra columns in second file",
    "Extra rows in first file", "Extra rows in second file", "Mismatched rows">>

\* the collections of a result, in the order of their sections
SectionLists(o) ==
  <<o.extra_cols_in_first_file, o.extra_cols_in_second_file,
    o.extra_rows_in_first_file, o.extra_rows_in_second_file, o.mismatched_rows>>

IsTitleLine(line) == \E i \in DOMAIN SectionTitles : line = <<SectionTitles[i]>>

\* the place of the title of section i in a text of the claimed layout
TitlePlace(o, i) ==
  LET before(j) == IF SectionLists(o)[j] = <<>> THEN 0 ELSE 1 + Len(SectionLists(o)[j])
      RECURSIVE sum(_)
      sum(j) == IF j = 0 THEN 0 ELSE sum(j - 1) + before(j)
  IN  4 + sum(i - 1)

\* C19: the text of a result starts with the line of the first file, of the
\* second file and of the match result; then come the sections, in their
\* fixed order, each one there exactly when its own collection is not empty
C19_TextRendering ==
  call.op = "__str__" =>
    LET lines == call.result
        titles == SelectSeq(lines, IsTitleLine)
        present == SelectSeq([i \in DOMAIN SectionTitles |-> i],
                             LAMBDA i : SectionLists(output)[i] # <<>>)
    IN  /\ Len(lines) >= 3
        /\ lines[1] = <<"First file: ", output.first_file>>
        /\ lines[2] = <<"Second file: ", output.second_file>>
        /\ lines[3] = <<"Match result: ", PyBool(output.match_result)>>
        /\ titles = [n \in DOMAIN present |-> <<SectionTitles[present[n]]>>]
        /\ \A i \in DOMAIN SectionTitles :
             SectionLists(output)[i] # <<>> =>
               /\ TitlePlace(output, i) + Len(SectionLists(output)[i]) <= Len(lines)
               /\ lines[TitlePlace(output, i)] = <<SectionTitles[i]>>
               /\ \A n \in 1..Len(SectionLists(output)[i]) :
                    ~IsTitleLine(lines[TitlePlace(output, i) + n])

\* rows only in the second file, and no column only in it
C19_Witness ==
  /\ call.op = "__str__"
  /\ output.extra_rows_in_second_file # <<>>
  /\ output.extra_cols_in_second_file = <<>>
  /\ output.extra_cols_in_first_file = <<>>
  /\ output.mismatched_rows # <<>>

\* result p is result o with the two sides exchanged
Mirrored(o, p) ==
  /\ p.match_result = o.match_result
  /\ SeqToSet(p.extra_cols_in_first_file) = SeqToSet(o.extra_cols_in_second_file)
  /\ SeqToSet(p.extra_cols_in_second_file) = SeqToSet(o.extra_cols_in_first_file)
  /\ SeqToSet(p.extra_rows_in_first_file) = SeqToSet(o.extra_rows_in_second_file)
  /\ SeqToSet(p.extra_rows_in_second_file) = SeqToSet(o.extra_rows_in_first_file)
  /\ Len(p.extra_cols_in_first_file) = Len(o.extra_cols_in_second_file)
  /\ Len(p.extra_cols_in_second_file) = Len(o.extra_cols_in_first_file)
  /\ Len(p.extra_rows_in_first_file) = Len(o.extra_rows_in_second_file)
  /\ Len(p.extra_rows_in_second_file) = Len(o.extra_rows_in_first_file)
  /\ Len(p.mismatched_rows) = Len(o.mismatched_rows)
  /\ SeqToSet(p.mismatched_rows) =
       {[row |-> m.row, column |-> m.column, first |-> m.second, second |-> m.first] :
          m \in SeqToSet(o.mismatched_rows)}

\* C20: comparing (B, A) on the key on which (A, B) was compared succeeds and
\* gives the result of (A, B) with the sides exchanged: extra columns and
\* extra rows change sides, the mismatches are on the same cells with first
\* and second exchanged, match_result is the same
C20_CompareSymmetric ==
  [][call.op = "from_lines swapped" /\ call'.op = "compare"
       /\ call'.index_column = call.index_column
       => call'.raised = "" /\ Mirrored(output, output')]_vars

\* the lines swapped after a compare that found rows on one side only and
\* cells that differ
C20_Witness ==
  /\ call.op = "from_lines swapped"
  /\ output.extra_rows_in_first_file # <<>>
  /\ output.extra_rows_in_second_file = <<>>
  /\ output.mismatched_rows # <<>>
  /\ Len(first_file.list_of_dicts) = 1
  /\ Len(second_file.list_of_dicts) = 2

----------------------------------------------------------------------------
(* Dropping columns between two compares (specification SpecDrop) *)

\* every difference result o reports lies in the columns C
DifferencesIn(o, C) ==
  /\ o.extra_rows_in_first_file = <<>>
  /\ o.extra_rows_in_second_file = <<>>
  /\ SeqToSet(o.extra_cols_in_first_file) \subseteq SeqToSet(C)
  /\ SeqToSet(o.extra_cols_in_second_file) \subseteq SeqToSet(C)
  /\ \A i \in DOMAIN o.mismatched_rows : o.mismatched_rows[i].column \in SeqToSet(C)

\* the drop_columns(C) just made came right after a compare on the key k that
\* did not match and whose differences all lie in C, and k is not in C
DroppedTheDifferences(k) ==
  /\ call.op = "drop_columns" /\ call.raised = ""
  /\ call.after = [op |-> "compare", raised |-> ""]
  /\ first_file._index_column = k
  /\ second_file._index_column = k
  /\ k \notin SeqToSet(call.args[1])
  /\ ~output.match_result
  /\ DifferencesIn(output, call.args[1])

\* C16: when every difference compare(k) reports lies in a set C of columns
\* other than k, then after drop_columns(C) compare(k) returns match_result
\* true, where it returned false before
C16_DropFlipsMatch ==
  [][DroppedTheDifferences(call'.index_column) /\ call'.op = "compare"
       => call'.raised = "" /\ output'.match_result]_vars

----------------------------------------------------------------------------
(* The de-duplication routine run step by step (specification SpecUnique) *)

\* the values a list handed to _unique_vals is made of
UniqueAlphabet == {TxtA, TxtA1, TxtA2, TxtB, NoneVal, TxtNone1}

UniqueInputs == SeqsUpTo(UniqueAlphabet, MaxLen)

UniqueDone == uv.run > 0 /\ uv.st.idx > Len(uv.st.result)

\* one iteration of the loop of _unique_vals
UniqueStep ==
  /\ uv.run > 0
  /\ uv.st.idx <= Len(uv.st.result)
  /\ uv' = [uv EXCEPT !.st = UniqueIter(uv.st)]
  /\ UNCHANGED <<first_file, second_file, output, call, nops, disk, key_set>>

\* _unique_vals called again, on the list the first call returned
UniqueAgain ==
  /\ UniqueDone
  /\ uv.run = 1
  /\ uv' = [uv EXCEPT !.st = UniqueStart(uv.st.result), !.run = 2]
  /\ UNCHANGED <<first_file, second_file, output, call, nops, disk, key_set>>

InitUnique ==
  /\ first_file = NullCSVParser
  /\ second_file = NullCSVParser
  /\ output = NoOutput
  /\ call = [op |-> "init", raised |-> ""]
  /\ nops = 0
  /\ disk = Files
  /\ key_set = FALSE
  /\ \E values \in UniqueInputs :
       uv = [st |-> UniqueStart(values), run |-> 1, input |-> values]

NextUnique == UniqueStep \/ UniqueAgain

SpecUnique == InitUnique /\ [][NextUnique]_vars

----------------------------------------------------------------------------
(* Properties of _unique_vals (specification SpecUnique) *)

\* the names the routine has produced for the positions before i
OutputsBefore(st, i) == {st.result[j] : j \in 1..(i - 1)}

\* C8: an element that is in the seen set when it is reached becomes
\* "{name}.{n}", n being the smallest positive integer whose "{name}.{n}" is
\* not in the seen set then; the seen set is the set of the names produced so
\* far; no counter has gone past an unused suffix; [a,a,a] gives [a,a.1,a.2]
\* and [a,a.1,a] gives [a,a.1,a.2]
C8_SmallestFreeSuffix ==
  /\ [][(/\ uv.run > 0
         /\ uv'.run = uv.run
         /\ uv.st.idx <= Len(uv.st.result)
         /\ uv.st.result[uv.st.idx] \in uv.st.unique_values)
        => LET val == uv.st.result[uv.st.idx]
               seen == uv.st.unique_values
           IN  \E n \in 1..(Cardinality(seen) + 1) :
                 /\ uv'.st.result[uv.st.idx] = Suffixed(val, n)
                 /\ Suffixed(val, n) \notin seen
                 /\ \A m \in 1..(n - 1) : Suffixed(val, m) \in seen]_vars
  /\ [](/\ uv.st.unique_values = OutputsBefore(uv.st, uv.st.idx)
        /\ \A v \in DOMAIN uv.st.suffix_counts :
             \A m \in 1..uv.st.suffix_counts[v] :
               Suffixed(v, m) \in uv.st.unique_values
        /\ (UniqueDone /\ uv.st.values \in {<<TxtA, TxtA, TxtA>>, <<TxtA, TxtA1, TxtA>>}
              => uv.st.result = <<TxtA, TxtA1, TxtA2>>))

\* C8 witness: [a, a.1, a] has been renamed to [a, a.1, a.2], the suffix 1
\* being taken
C8_Witness ==
  /\ UniqueDone
  /\ uv.st.values = <<TxtA, TxtA1, TxtA>>
  /\ uv.st.result = <<TxtA, TxtA1, TxtA2>>

\* C9 as stated: an element whose value is at no earlier position of the input
\* list is unchanged in the output, and the output is as long as the input
C9_FirstOccurrenceKept ==
  uv.run > 0 =>
    /\ Len(uv.st.result) = Len(uv.st.values)
    /\ \A i \in 1..(uv.st.idx - 1) :
         (\A j \in 1..(i - 1) : uv.st.values[j] # uv.st.values[i])
           => uv.st.result[i] = uv.st.values[i]

\* C9 amended: an element is unchanged in the output exactly when its value is
\* not among the names produced for the earlier positions (so a first
\* occurrence is kept unless an earlier repeat was renamed to that very name);
\* every other element gets a suffix, and the output is as long as the input
C9_KeptUnlessProduced ==
  uv.run > 0 =>
    /\ Len(uv.st.result) = Len(uv.st.values)
    /\ \A i \in 1..(uv.st.idx - 1) :
         IF uv.st.values[i] \notin OutputsBefore(uv.st, i)
           THEN uv.st.result[i] = uv.st.values[i]
           ELSE /\ uv.st.result[i] # uv.st.values[i]
                /\ \E n \in 1..Len(uv.st.values) :
                     uv.st.result[i] = Suffixed(uv.st.values[i], n)

\* C9 witness: in [a, a, a.1] the first occurrence of a.1 was renamed, the
\* name a.1 having gone to the second a
C9_Witness ==
  /\ UniqueDone
  /\ uv.run = 1
  /\ uv.st.values = <<TxtA, TxtA, TxtA1>>
  /\ uv.st.result[3] # TxtA1
  /\ uv.st.result[1] = TxtA

\* C10: the output of the routine has pairwise distinct elements, and the
\* routine run on its own output returns it unchanged
C10_DistinctAndIdempotent ==
  UniqueDone =>
    /\ NoDuplicates(uv.st.result)
    /\ uv.st.result = _unique_vals(uv.st.values)
    /\ uv.run = 2 => /\ uv.st.values = _unique_vals(uv.input)
                     /\ uv.st.result = uv.st.values

\* C10 witness: a second run has ended on the output of a first run that
\* renamed two elements
C10_Witness ==
  /\ UniqueDone
  /\ uv.run = 2
  /\ uv.input = <<TxtA, TxtA, TxtA1>>
  /\ uv.st.result # uv.input

====
